---- MODULE Spec2Model ----
(***************************************************************************)
(* A model of the ACBF tag adapter of src/acbfxml.py: the write-side merge *)
(* (_convert_metadata_to_xml), the read-side extraction                    *)
(* (_convert_xml_to_metadata), the byte validator (_validate_bytes) and    *)
(* the adapter calls has_tags / remove_tags / read_tags / read_raw_tags /  *)
(* write_tags over an archive.                                             *)
(*                                                                         *)
(* Representation.  An optional Python string is a TLA+ string or None.    *)
(* A string the code splits or suffix-tests (a person name, the root tag)  *)
(* is a sequence of one-character strings.  An archive entry name is the   *)
(* pair [stem, ext] of the text before and after its last dot, so that     *)
(* name.endswith('.acbf') is ext = "acbf".  An XML document is a record    *)
(* holding, per tag, the sequence of the book-info children of that tag    *)
(* in document order (find = first, findall = all), the body's children,   *)
(* the root's tag and the root's xmlns attribute.  The namespace is kept   *)
(* once for the whole document: the code strips it from every element      *)
(* before any path lookup.                                                 *)
(***************************************************************************)
EXTENDS Integers, Sequences, FiniteSets

VARIABLES
    pc,        \* position of the conversion scenario / adapter driver
    md,        \* the GenericMetadata record handed to write
    base,      \* the bytes handed to _convert_metadata_to_xml as `xml`
    out1,      \* result of the first _convert_metadata_to_xml
    out2,      \* result of the second _convert_metadata_to_xml (onto out1)
    rd,        \* result of _convert_xml_to_metadata on out1
    file,      \* self.file of each adapter instance
    arch,      \* the archives: supports_files, entry names, entry bytes
    lastCall,  \* the last adapter call: its arguments, outcome and log
    calls,     \* the two interleaved calls of the race scenario
    oneInstance \* race scenario: both calls run on one adapter instance

vars == <<pc, md, base, out1, out2, rd, file, arch, lastCall, calls, oneInstance>>

None == "~None"

\* Python truthiness of an optional string
Truthy(s) == s /= None /\ s /= ""

-----------------------------------------------------------------------------
(* Sequence helpers *)

Range(s) == {s[i] : i \in 1..Len(s)}

RECURSIVE SelectSeqBy(_, _)
\* the elements of s, in order, whose index is in keep
SelectSeqBy(s, keep) ==
    IF s = <<>> THEN <<>>
    ELSE LET n == Len(s)
             front == SelectSeqBy(SubSeq(s, 1, n - 1), keep)
         IN IF n \in keep THEN Append(front, s[n]) ELSE front

EndsWith(s, suffix) ==
    /\ Len(s) >= Len(suffix)
    /\ SubSeq(s, Len(s) - Len(suffix) + 1, Len(s)) = suffix

RECURSIVE SetToSeq(_)
\* iteration over a Python set: some order, each element once
SetToSeq(S) ==
    IF S = {} THEN <<>>
    ELSE LET x == CHOOSE y \in S : TRUE IN <<x>> \o SetToSeq(S \ {x})

RECURSIVE BoundedSeqs(_, _)
BoundedSeqs(S, n) ==
    IF n = 0 THEN {<<>>}
    ELSE LET shorter == BoundedSeqs(S, n - 1)
         IN shorter \cup {Append(s, x) : s \in {t \in shorter : Len(t) = n - 1}, x \in S}

-----------------------------------------------------------------------------
(* Vocabulary consumed from the generic-record type (comicapi): the role   *)
(* synonym tables.  casefold() and replace() are tabulated over the        *)
(* strings the model draws its inputs from.                                *)

writer_synonyms     == {"writer", "plotter", "scripter", "script"}
penciller_synonyms  == {"artist", "penciller", "penciler", "breakdowns", "pencils", "painting"}
inker_synonyms      == {"inker", "artist", "finishes", "inks", "painting"}
colorist_synonyms   == {"colorist", "colourist", "colorer", "colourer", "colors", "painting"}
letterer_synonyms   == {"letterer", "letters"}
cover_synonyms      == {"cover", "covers", "coverartist", "cover artist"}
editor_synonyms     == {"editor", "edits", "editing"}
translator_synonyms == {"translator", "translation"}

\* str.casefold()
CaseFold(s) ==
    CASE s = "Writer"       -> "writer"
      [] s = "Artist"       -> "artist"
      [] s = "Penciller"    -> "penciller"
      [] s = "Inker"        -> "inker"
      [] s = "Cover"        -> "cover"
      [] s = "CoverArtist"  -> "coverartist"
      [] s = "Translator"   -> "translator"
      [] s = "Other"        -> "other"
      [] s = "Foo"          -> "foo"
      [] s = "Adventure"    -> "adventure"
      [] s = "Historical"   -> "historical"
      [] s = "Action"       -> "action"
      [] s = "Manga"        -> "manga"
      [] s = "Science Fiction" -> "science fiction"
      [] s = "Yes"          -> "yes"
      [] s = "URL"          -> "url"
      [] s = "IssueID"      -> "issueid"
      [] s = "SeriesID"     -> "seriesid"
      [] OTHER              -> s

\* str.replace(' ', '_')
SpaceToUnderscore(s) ==
    CASE s = "science fiction" -> "science_fiction"
      [] s = "real life"       -> "real_life"
      [] OTHER                 -> s

\* str.replace('_', ' ')
UnderscoreToSpace(s) ==
    CASE s = "science_fiction" -> "science fiction"
      [] s = "real_life"       -> "real life"
      [] s = "non_fiction"     -> "non fiction"
      [] OTHER                 -> s

\* md.manga.casefold().startswith('yes')
StartsWithYes(s) == s \in {"yes", "yesandrighttoleft"}

allow_genres ==
    {"other", "adult", "adventure", "alternative", "artbook", "biography", "caricature",
     "children", "computer", "crime", "education", "fantasy", "history", "horror", "humor",
     "manga", "military", "mystery", "non-fiction", "politics", "real_life", "religion",
     "romance", "science_fiction", "sports", "superhero", "western"}

ns_url == "http://www.acbf.info/xml/acbf/1.2"

\* self.namespaces
namespaces == {"http://www.acbf.info/xml/acbf/1.1", "http://www.acbf.info/xml/acbf/1.2"}

ACBF == <<"A", "C", "B", "F">>

-----------------------------------------------------------------------------
(* Documents and bytes *)

\* root = ET.Element('ACBF'): the fresh tree of the write path
NewTree ==
    [ns |-> None, local |-> ACBF, xmlns |-> None,
     bookInfo |-> FALSE,
     author |-> <<>>, sequence |-> <<>>, bookTitle |-> <<>>, genre |-> <<>>,
     databaseref |-> <<>>, coverpage |-> <<>>, publishDate |-> <<>>,
     hasBody |-> FALSE, bgcolor |-> None, body |-> <<>>]

EmptyBytes   == [kind |-> "empty",   tree |-> NewTree]
GarbageBytes == [kind |-> "garbage", tree |-> NewTree]
DocBytes(t)  == [kind |-> "doc",     tree |-> t]

\* ET.fromstring: a ParseError for b'' and for bytes that are no XML; the
\* tree otherwise.  An xmlns attribute in the bytes is the namespace of the
\* parsed tags, not an attribute of the parsed root.
ET_fromstring(b) ==
    IF b.kind = "doc"
    THEN [ok |-> TRUE,
          tree |-> IF b.tree.xmlns /= None /\ b.tree.ns = None
                   THEN [b.tree EXCEPT !.ns = b.tree.xmlns, !.xmlns = None]
                   ELSE b.tree]
    ELSE [ok |-> FALSE, tree |-> NewTree]

\* ET.tostring(root, ...): the serialized document
ET_tostring(t) == DocBytes(t)

\* str(root.tag) in Clark notation is '{ns}local' or 'local'
TagEndsWith(t, suffix) == EndsWith(t.local, suffix)

_remove_acbf_xml_namespaces(t) == [t EXCEPT !.ns = None]

-----------------------------------------------------------------------------
(* _convert_metadata_to_xml: the helpers *)

RECURSIVE SplitAcc(_, _, _)
SplitAcc(rest, cur, done) ==
    IF rest = <<>>
    THEN IF cur = <<>> THEN done ELSE Append(done, cur)
    ELSE IF Head(rest) = " "
         THEN SplitAcc(Tail(rest), <<>>, IF cur = <<>> THEN done ELSE Append(done, cur))
         ELSE SplitAcc(Tail(rest), Append(cur, Head(rest)), done)

\* str.split(): the maximal runs of non-whitespace characters
Split(s) == SplitAcc(s, <<>>, <<>>)

\* add_credit taking the last token of a long name as the last name
add_credit_last_token(authors, person, role, lang) ==
    LET name_split == Split(person)
        n     == Len(name_split)
        first  == IF n >= 2 THEN name_split[1] ELSE <<>>
        middle == IF n > 2 THEN name_split[2] ELSE <<>>
        last   == IF n >= 2 THEN name_split[n] ELSE <<>>
        nick   == IF n = 1 THEN name_split[1] ELSE <<>>
    IN IF first = <<>> /\ last = <<>> /\ nick = <<>>
       THEN authors
       ELSE Append(authors, [activity |-> role, lang |-> lang, first |-> first,
                             middle |-> middle, last |-> last, nick |-> nick])

\* add_credit(person, role, lang): the author elements of book-info with
\* the new one appended, if any.  lang = None: no lang attribute.  A name
\* part of <<>> is an absent child.
add_credit(authors, person, role, lang) ==
    LET name_split == Split(person)
        n     == Len(name_split)
        first  == IF n >= 2 THEN name_split[1] ELSE <<>>
        middle == IF n > 2 THEN name_split[2] ELSE <<>>
        last   == IF n = 2 THEN name_split[2] ELSE IF n > 2 THEN name_split[3] ELSE <<>>
        nick   == IF n = 1 THEN name_split[1] ELSE <<>>
    IN IF first = <<>> /\ last = <<>> /\ nick = <<>>
       THEN authors
       ELSE Append(authors, [activity |-> role, lang |-> lang, first |-> first,
                             middle |-> middle, last |-> last, nick |-> nick])

\* the if/elif chain over credit.role.casefold(): the schema role label and
\* whether the credit's language is passed on to add_credit
RoleLabel(role) ==
    LET r == CaseFold(role)
    IN IF r \in writer_synonyms THEN [activity |-> "Writer", lang |-> TRUE]
       ELSE IF r \in {"adapter"} THEN [activity |-> "Adapter", lang |-> TRUE]
       ELSE IF r \in {"artist"} THEN [activity |-> "Artist", lang |-> FALSE]
       ELSE IF r \in penciller_synonyms THEN [activity |-> "Penciller", lang |-> FALSE]
       ELSE IF r \in inker_synonyms THEN [activity |-> "Inker", lang |-> FALSE]
       ELSE IF r \in colorist_synonyms THEN [activity |-> "Colorist", lang |-> FALSE]
       ELSE IF r \in {"photographer", "photo"} THEN [activity |-> "Photographer", lang |-> FALSE]
       ELSE IF r \in letterer_synonyms THEN [activity |-> "Letterer", lang |-> TRUE]
       ELSE IF r \in cover_synonyms THEN [activity |-> "CoverArtist", lang |-> FALSE]
       ELSE IF r \in editor_synonyms THEN [activity |-> "Editor", lang |-> TRUE]
       ELSE IF r \in {"assistant editor"} THEN [activity |-> "Assistant Editor", lang |-> TRUE]
       ELSE IF r \in translator_synonyms THEN [activity |-> "Translator", lang |-> TRUE]
       ELSE [activity |-> "Other", lang |-> TRUE]

RECURSIVE AddCredits(_, _)
\* for credit in md.credits: add_credit(...)
AddCredits(authors, credits) ==
    IF credits = <<>> THEN authors
    ELSE LET c == Head(credits)
             l == RoleLabel(c.role)
         IN AddCredits(add_credit(authors, c.person, l.activity,
                                  IF l.lang THEN c.language ELSE None),
                       Tail(credits))

\* clear_element('meta-data/book-info/author'), then one author per credit
WriteCredits(t, m) == [t EXCEPT !.author = AddCredits(<<>>, m.credits)]

\* the sequence element: `sequence.clear()` empties the list findall
\* returned, not the tree, so a single existing sequence stays in place
WriteSequence(t, m) ==
    IF ~Truthy(m.series) THEN t
    ELSE LET sequence == t.sequence
             kept == IF Len(sequence) = 1
                     THEN sequence
                     ELSE SelectSeq(sequence, LAMBDA seq : seq.text /= m.issue)
             element == [title |-> m.series,
                         text |-> IF Truthy(m.issue) THEN m.issue ELSE None,
                         volume |-> m.volume]
         IN [t EXCEPT !.sequence = Append(kept, element)]

\* title.clear() resets the element's attributes and text and leaves the
\* element in the tree
ClearedTitle(title) ==
    IF title.lang = None \/ title.lang = "en"
    THEN [lang |-> None, text |-> None]
    ELSE title

WriteTitle(t, m) ==
    IF ~Truthy(m.title) THEN t
    ELSE LET cleared == [i \in 1..Len(t.bookTitle) |-> ClearedTitle(t.bookTitle[i])]
             element == [lang |-> IF Truthy(m.language) THEN m.language ELSE None,
                         text |-> m.title]
         IN [t EXCEPT !.bookTitle = Append(cleared, element)]

\* md.genres.add('manga') when the manga flag starts with 'yes'
WithMangaGenre(m) ==
    IF m.manga /= None /\ StartsWithYes(CaseFold(m.manga))
    THEN [m EXCEPT !.genres = @ \cup {"manga"}]
    ELSE m

\* g.casefold().replace(' ', '_'), then 'historical' -> 'history'
GenreName(g) ==
    LET f == SpaceToUnderscore(CaseFold(g))
    IN IF f = "historical" THEN "history" ELSE f

\* the match value kept for genre g: that of the first current genre whose
\* text is g, 0 when it has none
KeptMatch(cur_genres, g) ==
    LET hits == {i \in 1..Len(cur_genres) : cur_genres[i].text = g}
    IN IF hits = {} THEN 0
       ELSE cur_genres[CHOOSE i \in hits : \A j \in hits : i <= j].match

RECURSIVE AddGenres(_, _, _)
AddGenres(elems, cur_genres, gs) ==
    IF gs = <<>> THEN elems
    ELSE LET g == GenreName(Head(gs))
         IN AddGenres(IF g \in allow_genres
                      THEN Append(elems, [text |-> g, match |-> KeptMatch(cur_genres, g)])
                      ELSE elems,
                      cur_genres, Tail(gs))

\* clear_element('meta-data/book-info/genre'), then one genre per allowed
\* record genre; m already holds the manga genre
WriteGenres(t, m) == [t EXCEPT !.genre = AddGenres(<<>>, t.genre, SetToSeq(m.genres))]

dbname(m) == IF m.data_origin = None THEN "Unknown" ELSE m.data_origin

\* dbref.get('type', '').casefold()
RefType(dbref) == IF dbref.type = None THEN "" ELSE CaseFold(dbref.type)

WriteWebLinks(t, m) ==
    IF m.web_links = <<>> THEN t
    ELSE LET kept == SelectSeq(t.databaseref, LAMBDA dbref : RefType(dbref) /= "url")
             added == [i \in 1..Len(m.web_links) |->
                          [type |-> "URL", text |-> m.web_links[i], dbname |-> dbname(m)]]
         IN [t EXCEPT !.databaseref = kept \o added]

IssueIdTypes  == {"issueid", "issue_id", "issue-id"}
SeriesIdTypes == {"seriesid", "series_id", "series-id"}

\* add_issue after the loop over book_info.findall('databaseref')
AddIssue(refs, m) ==
    ~\E i \in 1..Len(refs) :
        /\ RefType(refs[i]) \in IssueIdTypes
        /\ m.issue_id /= None /\ refs[i].text = m.issue_id

\* add_series after the same loop: the series test sits inside the branch
\* taken for issue-id references
AddSeries(refs, m) ==
    ~\E i \in 1..Len(refs) :
        /\ RefType(refs[i]) \in IssueIdTypes
        /\ RefType(refs[i]) \in SeriesIdTypes
        /\ m.series_id /= None /\ refs[i].text = m.series_id

WriteIds(t, m) ==
    IF ~(Truthy(m.issue_id) \/ Truthy(m.series_id)) THEN t
    ELSE LET refs == t.databaseref
             withIssue ==
                 IF Truthy(m.issue_id) /\ AddIssue(refs, m)
                 THEN Append(refs, [type |-> "IssueID", text |-> m.issue_id, dbname |-> dbname(m)])
                 ELSE refs
             withSeries ==
                 IF Truthy(m.series_id) /\ AddSeries(refs, m)
                 THEN Append(withIssue, [type |-> "SeriesID", text |-> m.series_id, dbname |-> dbname(m)])
                 ELSE withIssue
         IN [t EXCEPT !.databaseref = withSeries]

-----------------------------------------------------------------------------
(* _convert_metadata_to_xml: the publish date.  A day, month or year of a  *)
(* record is a natural number, 0 when the record holds none; the text and  *)
(* the 'value' attribute of publish-date are sequences of characters, <<>> *)
(* when absent.                                                            *)

Digit(d) == <<"0", "1", "2", "3", "4", "5", "6", "7", "8", "9">>[d + 1]

RECURSIVE Decimal(_)
\* str(n) of n >= 0
Decimal(n) == IF n < 10 THEN <<Digit(n)>> ELSE Append(Decimal(n \div 10), Digit(n % 10))

RECURSIVE ZeroPad(_, _)
\* f'{n:0w}': at least w characters, zeros in front
ZeroPad(digits, w) == IF Len(digits) >= w THEN digits ELSE ZeroPad(<<"0">> \o digits, w)

\* year without the century test: the record's year as it is
year_as_is(y) == y

\* int(year) < 50: 2000 + year; year < 100: 1900 + year
year_normalized(y) == IF y < 50 THEN 2000 + y ELSE IF y < 100 THEN 1900 + y ELSE y

\* f'{year:04}-{month:02}-{day:02}'
pub_date(m) ==
    LET day   == IF m.day = 0 THEN 1 ELSE m.day
        month == IF m.month = 0 THEN 1 ELSE m.month
        year  == year_normalized(m.year)
    IN ZeroPad(Decimal(year), 4) \o <<"-">> \o ZeroPad(Decimal(month), 2)
           \o <<"-">> \o ZeroPad(Decimal(day), 2)

\* modify_element('meta-data/publish-info/publish-date', pub_date,
\* {'value': pub_date}): the first publish-date, created when there is
\* none, gets the text and the attribute; its children stay
WritePublishDate(t, m) ==
    IF m.year = 0 THEN t
    ELSE LET element == IF t.publishDate = <<>>
                        THEN [value |-> <<>>, text |-> <<>>, children |-> 0]
                        ELSE t.publishDate[1]
             written == [element EXCEPT !.text = pub_date(m), !.value = pub_date(m)]
         IN [t EXCEPT !.publishDate = <<written>> \o (IF @ = <<>> THEN <<>> ELSE Tail(@))]

-----------------------------------------------------------------------------
(* _convert_metadata_to_xml: the page merge *)

RECURSIVE InsertByDisplayIndex(_, _)
\* p placed after every element whose display_index is not greater
InsertByDisplayIndex(sorted, p) ==
    IF sorted = <<>> THEN <<p>>
    ELSE LET n == Len(sorted)
         IN IF sorted[n].display_index <= p.display_index
            THEN Append(sorted, p)
            ELSE Append(InsertByDisplayIndex(SubSeq(sorted, 1, n - 1), p), sorted[n])

RECURSIVE SortedByDisplayIndex(_)
\* sorted(md.pages, key=lambda x: x.display_index): stable
SortedByDisplayIndex(pages) ==
    IF pages = <<>> THEN <<>>
    ELSE LET n == Len(pages)
         IN InsertByDisplayIndex(SortedByDisplayIndex(SubSeq(pages, 1, n - 1)), pages[n])

\* the coverpage found in book-info, retagged 'page', when it has an image
\* with an href: its page_dict entry
CoverEntry(t) ==
    IF t.coverpage /= <<>> /\ t.coverpage[1].image /\ t.coverpage[1].href /= None
    THEN <<[t.coverpage[1] EXCEPT !.tag = "page"]>>
    ELSE <<>>

\* page_dict.get(filename): the last body page with that href, else the
\* old cover when its href is that filename, else nothing
PageDictGet(t, filename) ==
    LET hits == {i \in 1..Len(t.body) :
                    /\ t.body[i].tag = "page" /\ t.body[i].image
                    /\ t.body[i].href /= None /\ t.body[i].href = filename}
        cover == CoverEntry(t)
    IN IF hits /= {} THEN <<t.body[CHOOSE i \in hits : \A j \in hits : j <= i]>>
       ELSE IF cover /= <<>> /\ cover[1].href = filename THEN cover
       ELSE <<>>

\* book_info.remove(coverpage): the first coverpage leaves book-info
RemoveCoverpage(t) == IF t.coverpage = <<>> THEN <<>> ELSE Tail(t.coverpage)

\* the cover taken to be the second page
is_cover_second(i) == i = 1

\* i == 0: the cover page lives in book-info, not body
is_cover(i) == i = 0

\* add_page(md_page, xml_page, is_cover): the element that is appended to
\* book-info (tag 'coverpage') or to body
add_page(md_page, xml_page, cover, language) ==
    LET start == IF xml_page /= <<>>
                 THEN IF Truthy(md_page.bookmark)
                      THEN [xml_page[1] EXCEPT !.title =
                               SelectSeq(@, LAMBDA ttl : ~(ttl.lang \in {None, "en", ""}))]
                      ELSE xml_page[1]
                 ELSE [tag |-> "page", image |-> TRUE, href |-> md_page.filename,
                       title |-> <<>>, frames |-> 0]
        titled == IF Truthy(md_page.bookmark)
                  THEN [start EXCEPT !.title =
                           Append(@, [lang |-> IF Truthy(language) THEN language ELSE None,
                                      text |-> md_page.bookmark])]
                  ELSE start
    IN IF cover THEN [titled EXCEPT !.tag = "coverpage"] ELSE titled

\* the page merge: the body is cleared (its attributes kept) and the
\* record's pages are emitted in display order
WritePages(t, m) ==
    LET pages == SortedByDisplayIndex(m.pages)
        elems == [i \in 1..Len(pages) |->
                     add_page(pages[i], PageDictGet(t, pages[i].filename),
                              is_cover(i - 1), m.language)]
        covers == {i \in 1..Len(pages) : is_cover(i - 1)}
    IN [t EXCEPT !.hasBody = TRUE,
                 !.coverpage = RemoveCoverpage(t) \o SelectSeqBy(elems, covers),
                 !.body = SelectSeqBy(elems, (1..Len(pages)) \ covers)]

-----------------------------------------------------------------------------
(* _convert_metadata_to_xml *)

\* the base tree: parsed from xml when xml is not empty, fresh otherwise;
\* namespaces stripped and the root's xmlns attribute set either way
LoadBase(xml) ==
    IF xml.kind /= "empty"
    THEN LET parsed == ET_fromstring(xml)
         IN [raised |-> ~parsed.ok,
             tree |-> [_remove_acbf_xml_namespaces(parsed.tree) EXCEPT !.xmlns = ns_url]]
    ELSE [raised |-> FALSE, tree |-> [NewTree EXCEPT !.xmlns = ns_url]]

\* The merge, field by field in the order of the code.  md is updated in
\* place by the code (the manga genre, the sorted pages): the record after
\* the call is returned with the tree.  ET.indent only changes the
\* whitespace text of elements that have children, which the document
\* record does not hold.
ConvertMetadataToXml(metadata, xml) ==
    LET loaded == LoadBase(xml)
        m  == WithMangaGenre(metadata)
        t0 == [loaded.tree EXCEPT !.bookInfo = TRUE]
        t1 == WriteCredits(t0, m)
        t2 == WriteSequence(t1, m)
        t3 == WriteTitle(t2, m)
        t4 == WriteGenres(t3, m)
        t5 == WriteWebLinks(t4, m)
        t6 == WriteIds(t5, m)
        t7 == WritePages(WritePublishDate(t6, m), m)
    IN IF loaded.raised
       THEN [raised |-> TRUE, tree |-> NewTree, md |-> metadata]
       ELSE [raised |-> FALSE, tree |-> t7,
             md |-> [m EXCEPT !.pages = SortedByDisplayIndex(m.pages)]]

\* _bytes_from_metadata
BytesFromMetadata(metadata, xml) ==
    LET r == ConvertMetadataToXml(metadata, xml)
    IN [raised |-> r.raised, bytes |-> ET_tostring(r.tree), md |-> r.md]

-----------------------------------------------------------------------------
(* _convert_xml_to_metadata *)

\* GenericMetadata()
EmptyMd ==
    [series |-> None, issue |-> None, title |-> None, volume |-> 0, genres |-> {},
     language |-> None, manga |-> None, web_links |-> <<>>, credits |-> <<>>,
     data_origin |-> None, issue_id |-> None, series_id |-> None, pages |-> <<>>,
     day |-> 0, month |-> 0, year |-> 0,
     is_empty |-> TRUE]

\* utils.xlate
xlate(data) == IF data = None \/ data = "" THEN None ELSE data

\* get_with_lang(name) over the elements of that name in book-info: the
\* text of the first one with no lang or lang = 'en', None otherwise
get_with_lang(tags) ==
    LET hits == {i \in 1..Len(tags) : tags[i].lang = None \/ tags[i].lang = "en"}
    IN IF hits = {} THEN None
       ELSE tags[CHOOSE i \in hits : \A j \in hits : i <= j].text

\* acbf_tags: 'ACBF' alone or in one of self.namespaces
InAcbfTags(root) == root.local = ACBF /\ root.ns \in namespaces \cup {None}

\* the root check: nothing, or one of the two exceptions raised
RootCheck(root) ==
    IF InAcbfTags(root) THEN "ok"
    ELSE IF root.ns /= None /\ root.local = ACBF THEN "Unknown ACBF version"
    ELSE "Not an ACBF file"

RECURSIVE ReadGenres(_, _)
ReadGenres(m, gs) ==
    IF gs = <<>> THEN m
    ELSE LET g == Head(gs)
             m1 == IF Truthy(g.text)
                   THEN [m EXCEPT !.manga = IF CaseFold(g.text) = "manga" THEN "Yes" ELSE @,
                                  !.genres = @ \cup {CaseFold(UnderscoreToSpace(g.text))}]
                   ELSE m
         IN ReadGenres(m1, Tail(gs))

\* GenericMetadata.add_credit: nothing for an empty person or for a person
\* and role already present
md_add_credit(credits, person, role, language) ==
    IF person = <<>> THEN credits
    ELSE IF \E i \in 1..Len(credits) :
                credits[i].person = person /\ CaseFold(credits[i].role) = CaseFold(role)
         THEN credits
         ELSE Append(credits, [person |-> person, role |-> role, language |-> language])

\* the display name of an author element and whether the author is kept
AuthorName(n) ==
    IF n.first /= <<>> /\ n.last /= <<>>
    THEN [keep |-> TRUE,
          name |-> IF n.middle = <<>> THEN n.first \o <<" ">> \o n.last
                   ELSE n.first \o <<" ">> \o n.middle \o <<" ">> \o n.last]
    ELSE IF n.nick /= <<>> THEN [keep |-> TRUE, name |-> n.nick]
    ELSE IF n.first /= <<>> THEN [keep |-> TRUE, name |-> n.first]
    ELSE [keep |-> FALSE, name |-> <<>>]

RECURSIVE ReadCredits(_, _)
ReadCredits(credits, authors) ==
    IF authors = <<>> THEN credits
    ELSE LET n == Head(authors)
             role == IF CaseFold(n.activity) = "coverartist" THEN "Cover" ELSE n.activity
             language == IF n.lang = None THEN "" ELSE n.lang
             a == AuthorName(n)
         IN ReadCredits(IF Truthy(n.activity) /\ a.keep
                        THEN md_add_credit(credits, a.name, role, language)
                        ELSE credits,
                        Tail(authors))

RECURSIVE PageTitle(_, _)
\* the bookmark of a page: the first title with no lang, else the last
\* 'en' one before it, else the first with a text
PageTitle(titles, title) ==
    IF titles = <<>> THEN title
    ELSE LET ttl == Head(titles)
             lang == IF ttl.lang = None THEN "" ELSE ttl.lang
         IN IF lang = "" /\ Truthy(ttl.text) THEN ttl.text
            ELSE IF lang = "en" /\ Truthy(ttl.text) THEN PageTitle(Tail(titles), ttl.text)
            ELSE IF title = "" /\ Truthy(ttl.text) THEN PageTitle(Tail(titles), ttl.text)
            ELSE PageTitle(Tail(titles), title)

\* page_file_list.get(filename): the 0-based position of the last
\* occurrence of filename in file_list, i when there is none
ArchiveIndex(file_list, filename, i) ==
    LET hits == {k \in 1..Len(file_list) : file_list[k] = filename}
    IN IF hits = {} THEN i ELSE (CHOOSE k \in hits : \A j \in hits : j <= k) - 1

\* pages_node: body/page elements, the first coverpage of book-info in front
PagesNode(root) ==
    LET pages == SelectSeq(root.body, LAMBDA b : b.tag = "page")
    IN IF root.coverpage /= <<>> THEN <<root.coverpage[1]>> \o pages ELSE pages

ReadPages(root, file_list) ==
    LET pages_node == PagesNode(root)
    IN [i \in 1..Len(pages_node) |->
           LET page == pages_node[i]
               filename == IF page.image /\ page.href /= None THEN page.href ELSE ""
           IN [filename |-> filename, display_index |-> i - 1,
               archive_index |-> ArchiveIndex(file_list, filename, i - 1),
               bookmark |-> PageTitle(page.title, "")]]

IsDigit(c) == c \in {"0", "1", "2", "3", "4", "5", "6", "7", "8", "9"}

DigitValue(c) == CHOOSE d \in 0..9 : Digit(d) = c

RECURSIVE IntOf(_)
\* int(s) of a sequence of digits
IntOf(s) == IF s = <<>> THEN 0 ELSE 10 * IntOf(SubSeq(s, 1, Len(s) - 1)) + DigitValue(s[Len(s)])

RECURSIVE SplitOn(_, _, _, _)
\* str.split(sep)
SplitOn(rest, sep, cur, done) ==
    IF rest = <<>> THEN Append(done, cur)
    ELSE IF Head(rest) = sep THEN SplitOn(Tail(rest), sep, <<>>, Append(done, cur))
    ELSE SplitOn(Tail(rest), sep, Append(cur, Head(rest)), done)

\* utils.xlate_int of a date part: its number, nothing (0) when it is no number
xlate_int(part) ==
    IF part /= <<>> /\ \A i \in 1..Len(part) : IsDigit(part[i]) THEN IntOf(part) ELSE 0

\* utils.parse_date_str: day, month and year of 'YYYY-MM-DD', each nothing
\* (0) when the string is absent or that part is no number
parse_date_str(date_str) ==
    LET parts == SplitOn(date_str, "-", <<>>, <<>>)
    IN IF date_str = <<>> THEN [day |-> 0, month |-> 0, year |-> 0]
       ELSE [day   |-> IF Len(parts) > 2 THEN xlate_int(parts[3]) ELSE 0,
             month |-> IF Len(parts) > 1 THEN xlate_int(parts[2]) ELSE 0,
             year  |-> xlate_int(parts[1])]

\* bool(element) of an ElementTree element: it has child elements
ElementTruthy(e) == e.children > 0

\* re.match(r'\d{4}', text): the first four characters when they are digits
MatchYear(text) ==
    IF Len(text) >= 4 /\ \A i \in 1..4 : IsDigit(text[i])
    THEN IntOf(SubSeq(text, 1, 4))
    ELSE 0

\* the date: from the 'value' attribute of the first publish-date, the year
\* from the start of its text when none was parsed
ReadDate(m, root) ==
    IF root.publishDate = <<>> THEN m
    ELSE LET e == root.publishDate[1]
             d == parse_date_str(e.value)
         IN [m EXCEPT !.day = d.day, !.month = d.month,
                      !.year = IF d.year = 0 /\ ElementTruthy(e) /\ e.text /= <<>>
                               THEN MatchYear(e.text)
                               ELSE d.year]

ConvertXmlToMetadata(root0, file_list) ==
    LET check == RootCheck(root0)
        root == _remove_acbf_xml_namespaces(root0)
        seq == root.sequence
        m1 == IF Len(seq) > 0
              THEN [EmptyMd EXCEPT !.series = seq[1].title, !.volume = seq[1].volume,
                                   !.issue = IF Truthy(seq[1].text) THEN seq[1].text ELSE None]
              ELSE EmptyMd
        m2 == [m1 EXCEPT !.title = xlate(get_with_lang(root.bookTitle))]
        m3 == IF m2.series = None THEN [m2 EXCEPT !.series = m2.title, !.title = None] ELSE m2
        m4 == ReadGenres(m3, root.genre)
        m5 == [ReadDate(m4, root) EXCEPT !.web_links =
                  LET urls == SelectSeq(root.databaseref,
                                        LAMBDA r : r.type /= None /\ CaseFold(r.type) = "url")
                  IN [i \in 1..Len(urls) |-> urls[i].text]]
        m6 == [m5 EXCEPT !.credits = ReadCredits(<<>>, root.author)]
        m7 == [m6 EXCEPT !.pages = ReadPages(root, file_list), !.is_empty = FALSE]
    IN IF check /= "ok" THEN [raised |-> check, md |-> EmptyMd]
       ELSE IF ~root.bookInfo THEN [raised |-> "no", md |-> EmptyMd]
       ELSE [raised |-> "no", md |-> m7]

\* _metadata_from_bytes
MetadataFromBytes(string, file_list) ==
    LET parsed == ET_fromstring(string)
    IN IF ~parsed.ok THEN [raised |-> "ParseError", md |-> EmptyMd]
       ELSE ConvertXmlToMetadata(parsed.tree, file_list)

\* _validate_bytes
ValidateBytes(string) ==
    LET parsed == ET_fromstring(string)
    IN parsed.ok /\ TagEndsWith(parsed.tree, ACBF)

-----------------------------------------------------------------------------
(* The archive collaborator: an ordered list of named entries.  An entry   *)
(* name is [stem, ext]; a cached name (self.file) is <<>> for None and     *)
(* <<name>> otherwise.                                                     *)

DefaultName == [stem |-> "comic_metadata", ext |-> "acbf"]

\* file.endswith('.acbf')
EndsWithAcbf(name) == name.ext = "acbf"

get_filename_list(a) == [i \in 1..Len(a.entries) |-> a.entries[i].name]

HasEntry(a, name) == \E i \in 1..Len(a.entries) : a.entries[i].name = name

\* archive.read_file(name): the bytes of the entry; raises when the archive
\* has no such entry
read_file(a, name) ==
    IF HasEntry(a, name)
    THEN [raised |-> FALSE,
          bytes |-> a.entries[CHOOSE i \in 1..Len(a.entries) : a.entries[i].name = name].bytes]
    ELSE [raised |-> TRUE, bytes |-> EmptyBytes]

\* archive.write_file(name, data): the entry replaced in place, or appended
write_file(a, name, data) ==
    IF HasEntry(a, name)
    THEN [a EXCEPT !.entries = [i \in 1..Len(a.entries) |->
                                   IF a.entries[i].name = name
                                   THEN [name |-> name, bytes |-> data]
                                   ELSE a.entries[i]]]
    ELSE [a EXCEPT !.entries = Append(@, [name |-> name, bytes |-> data])]

\* archive.remove_file(name)
remove_file(a, name) ==
    [a EXCEPT !.entries = SelectSeq(@, LAMBDA e : e.name /= name)]

\* the name of a page entry as the string an image href holds
JoinName(name) ==
    CASE name.stem = "p1" /\ name.ext = "jpg" -> "p1.jpg"
      [] name.stem = "p2" /\ name.ext = "jpg" -> "p2.jpg"
      [] name.stem = "p3" /\ name.ext = "jpg" -> "p3.jpg"
      [] OTHER -> ""

\* utils.get_page_name_list: the image entries of the listing
get_page_name_list(names) ==
    LET images == SelectSeq(names, LAMBDA n : n.ext = "jpg")
    IN [i \in 1..Len(images) |-> JoinName(images[i])]

-----------------------------------------------------------------------------
(* The adapter calls, each as a function of self.file before the call, the *)
(* archive and the arguments.  An outcome holds self.file and the archive  *)
(* after the call, what the call returned or that it raised, and the       *)
(* archive operations it performed.                                        *)

Outcome(f, a, raised, ret, m, text, log) ==
    [file |-> f, arch |-> a, raised |-> raised, ret |-> ret, md |-> m,
     text |-> text, log |-> log]

\* the cached name left as it was
KeepFile(file0) == file0

\* self.file = None
ResetFile(file0) == <<>>

\* the for loop of has_tags: the first entry name ending in '.acbf'
FindAcbf(names, f) ==
    LET hits == {i \in 1..Len(names) : EndsWithAcbf(names[i])}
    IN IF hits = {} THEN f
       ELSE <<names[CHOOSE i \in hits : \A j \in hits : i <= j]>>

\* every archive taken to support named files
supports_any(a) == TRUE

\* supports_tags
supports_tags(a) == a.supports

has_tags(file0, a) ==
    LET f == FindAcbf(get_filename_list(a), ResetFile(file0))
        log == <<[op |-> "list", name |-> <<>>]>>
    IN IF f /= <<>> /\ supports_tags(a)
       THEN LET r == read_file(a, f[1])
                log2 == Append(log, [op |-> "read", name |-> f])
            IN IF r.raised
               THEN Outcome(f, a, TRUE, FALSE, EmptyMd, EmptyBytes, log2)
               ELSE Outcome(f, a, FALSE, ValidateBytes(r.bytes), EmptyMd, EmptyBytes, log2)
       ELSE Outcome(f, a, FALSE, FALSE, EmptyMd, EmptyBytes, log)

remove_tags(file0, a) ==
    LET h == has_tags(file0, a)
    IN IF h.raised \/ ~h.ret THEN h
       ELSE Outcome(h.file, remove_file(a, h.file[1]), FALSE, TRUE, EmptyMd, EmptyBytes,
                    Append(h.log, [op |-> "remove", name |-> h.file]))

read_tags(file0, a) ==
    LET h == has_tags(file0, a)
    IN IF h.raised \/ ~h.ret THEN h
       ELSE LET r == read_file(a, h.file[1])
                log2 == Append(h.log, [op |-> "read", name |-> h.file])
            IN IF r.raised THEN Outcome(h.file, a, TRUE, FALSE, EmptyMd, EmptyBytes, log2)
               ELSE IF ~ValidateBytes(r.bytes)
                    THEN Outcome(h.file, a, FALSE, FALSE, EmptyMd, EmptyBytes, log2)
               ELSE LET c == MetadataFromBytes(r.bytes,
                                               get_page_name_list(get_filename_list(a)))
                        log3 == Append(log2, [op |-> "list", name |-> <<>>])
                    IN Outcome(h.file, a, c.raised /= "no", FALSE, c.md, EmptyBytes, log3)

read_raw_tags(file0, a) ==
    LET h == has_tags(file0, a)
    IN IF h.raised \/ ~h.ret THEN h
       ELSE LET r == read_file(a, h.file[1])
                log2 == Append(h.log, [op |-> "read", name |-> h.file])
                parsed == ET_fromstring(r.bytes)
            IN IF r.raised \/ ~parsed.ok
               THEN Outcome(h.file, a, TRUE, FALSE, EmptyMd, EmptyBytes, log2)
               ELSE Outcome(h.file, a, FALSE, FALSE, EmptyMd, ET_tostring(parsed.tree), log2)

write_tags(file0, a, metadata) ==
    IF supports_tags(a)
    THEN LET h == has_tags(file0, a)
             r == IF h.ret THEN read_file(a, h.file[1])
                  ELSE [raised |-> FALSE, bytes |-> EmptyBytes]
             log2 == IF h.ret THEN Append(h.log, [op |-> "read", name |-> h.file]) ELSE h.log
             f == IF h.file = <<>> THEN <<DefaultName>> ELSE h.file
             b == BytesFromMetadata(metadata, r.bytes)
         IN IF h.raised THEN h
            ELSE IF r.raised THEN Outcome(h.file, a, TRUE, FALSE, EmptyMd, EmptyBytes, log2)
            ELSE IF b.raised THEN Outcome(f, a, TRUE, FALSE, EmptyMd, EmptyBytes, log2)
            ELSE Outcome(f, write_file(a, f[1], b.bytes), FALSE, TRUE, EmptyMd, EmptyBytes,
                         Append(log2, [op |-> "write", name |-> f]))
    ELSE Outcome(file0, a, FALSE, FALSE, EmptyMd, EmptyBytes, <<>>)

-----------------------------------------------------------------------------
(* Bounds and input pools *)

MaxCredits == 1     \* credits of a drawn record
MaxPages   == 3     \* pages of a drawn record
MaxBody    == 2     \* children of the body of a drawn base tree
MaxRefs    == 2     \* databaseref elements of a drawn base tree
MaxCalls   == 2     \* adapter calls in a sequential run

Persons ==
    {<<"A">>, <<"A", " ", "B">>, <<"A", " ", "B", " ", "C">>,
     <<"A", " ", "B", " ", "C", " ", "D">>}
Roles == {"Writer", "writer", "Artist", "Cover", "Foo"}
CreditPool == [person : Persons, role : Roles, language : {"", "en"}]
GenrePool == {"adventure", "science fiction", "Historical", "Action"}
FileNames == {"p1.jpg", "p2.jpg", "p3.jpg"}
DisplayIndexes == 0..2

\* the fields of a record that is not empty and holds nothing
BlankMd == [EmptyMd EXCEPT !.is_empty = FALSE]

PageEntry(f, d, b) == [filename |-> f, display_index |-> d, bookmark |-> b]

Injective(s) == \A i, j \in 1..Len(s) : s[i] = s[j] => i = j

\* page lists of a record: distinct filenames
PageLists(n) ==
    {s \in BoundedSeqs([filename : FileNames, display_index : DisplayIndexes,
                        bookmark : {""}], n) :
        Injective([i \in 1..Len(s) |-> s[i].filename])}

\* page elements of a base tree
BasePage(tag, image, href) ==
    [tag |-> tag, image |-> image, href |-> href, title |-> <<>>, frames |-> 1]

BodyPool ==
    {BasePage("page", TRUE, f) : f \in FileNames}
        \cup {BasePage("page", TRUE, None), BasePage("page", FALSE, None),
              BasePage("text-layer", FALSE, None)}

CoverPool ==
    {BasePage("coverpage", TRUE, f) : f \in FileNames}
        \cup {BasePage("coverpage", FALSE, None)}

\* a parsed document with book-info and body and nothing in them
BlankTree == [NewTree EXCEPT !.bookInfo = TRUE, !.hasBody = TRUE]

-----------------------------------------------------------------------------
(* The conversion scenario: write md onto base, read the produced tree     *)
(* back, write the record again onto the serialized result.                *)

NoWrite == [raised |-> FALSE, tree |-> NewTree, md |-> EmptyMd]
NoRead  == [raised |-> "no", md |-> EmptyMd]
NoCall  == [n |-> 0, op |-> "none", on |-> "A", file0 |-> <<>>,
            before |-> [supports |-> TRUE, entries |-> <<>>],
            md |-> EmptyMd,
            out |-> Outcome(<<>>, [supports |-> TRUE, entries |-> <<>>], FALSE, FALSE,
                            EmptyMd, EmptyBytes, <<>>)]

ConvIdle ==
    /\ file = <<>>
    /\ arch = <<>>
    /\ lastCall = NoCall
    /\ calls = <<>>
    /\ oneInstance = FALSE

ConvInit(records, bases) ==
    /\ pc = "start"
    /\ md \in records
    /\ base \in bases
    /\ out1 = NoWrite
    /\ out2 = NoWrite
    /\ rd = NoRead
    /\ ConvIdle

WriteFirst ==
    /\ pc = "start"
    /\ out1' = ConvertMetadataToXml(md, base)
    /\ md' = out1'.md
    /\ pc' = "written"
    /\ UNCHANGED <<base, out2, rd, file, arch, lastCall, calls, oneInstance>>

ReadBack ==
    /\ pc = "written"
    /\ ~out1.raised
    /\ rd' = ConvertXmlToMetadata(out1.tree, <<>>)
    /\ pc' = "read"
    /\ UNCHANGED <<md, base, out1, out2, file, arch, lastCall, calls, oneInstance>>

WriteAgain ==
    /\ pc = "read"
    /\ out2' = ConvertMetadataToXml(md, ET_tostring(out1.tree))
    /\ md' = out2'.md
    /\ pc' = "written2"
    /\ UNCHANGED <<base, out1, rd, file, arch, lastCall, calls, oneInstance>>

NextConv == WriteFirst \/ ReadBack \/ WriteAgain

\* round trip: records varying in series, title, language, genres, credits
\* and pages, written onto no existing document
RoundRecords ==
    {[BlankMd EXCEPT !.series = r.series, !.title = r.title, !.language = r.language,
                     !.genres = r.genres, !.credits = r.credits, !.pages = r.pages] :
        r \in [series : {None, "S"}, title : {None, "T"}, language : {None, "en", "fr"},
               genres : SUBSET GenrePool,
               credits : BoundedSeqs(CreditPool, MaxCredits),
               pages : {<<PageEntry("p1.jpg", 0, "")>>,
                        <<PageEntry("p1.jpg", 1, ""), PageEntry("p2.jpg", 0, "")>>}]}

InitRound == ConvInit(RoundRecords, {EmptyBytes})
SpecRound == InitRound /\ [][NextConv]_vars

-----------------------------------------------------------------------------
(* C1 *)

RECURSIVE JoinTokens(_)
\* ' '.join(tokens)
JoinTokens(tokens) ==
    IF tokens = <<>> THEN <<>>
    ELSE IF Len(tokens) = 1 THEN tokens[1]
    ELSE tokens[1] \o <<" ">> \o JoinTokens(Tail(tokens))

\* a record in the form the schema can hold: a series, genres spelled as
\* read back from the allow-list, credits of one to three single-spaced
\* name tokens with a role spelled as read back, no language on a role
\* that is written without one, no credit twice
IsNormalized(m) ==
    /\ Truthy(m.series)
    /\ \A g \in m.genres :
          GenreName(g) \in allow_genres /\ CaseFold(UnderscoreToSpace(GenreName(g))) = g
    /\ \A i \in 1..Len(m.credits) :
          LET c == m.credits[i]
              l == RoleLabel(c.role)
          IN /\ Len(Split(c.person)) \in 1..3
             /\ JoinTokens(Split(c.person)) = c.person
             /\ c.role = (IF l.activity = "CoverArtist" THEN "Cover" ELSE l.activity)
             /\ (l.lang \/ c.language = "")
    /\ Injective(m.credits)

Filenames(pages) == [i \in 1..Len(pages) |-> pages[i].filename]

\* C1: for every normalized record with at least one page, reading back the
\* tree that write produced returns a record whose series, title, genres,
\* credits and page filenames in display order equal those of the record
\* that was written.
C1_RoundTrip ==
    (pc = "read" /\ Len(md.pages) >= 1 /\ IsNormalized(md))
        => /\ rd.raised = "no"
           /\ rd.md.series = md.series
           /\ rd.md.title = md.title
           /\ rd.md.genres = md.genres
           /\ rd.md.credits = md.credits
           /\ Filenames(rd.md.pages) = Filenames(md.pages)

-----------------------------------------------------------------------------
(* Writing twice: records varying in genres, credits, web links, ids and   *)
(* the manga flag, written onto no document or onto one that already holds *)
(* genres, an author and database references.                              *)

TwiceRecords ==
    {[BlankMd EXCEPT !.series = "S", !.genres = r.genres, !.credits = r.credits,
                     !.web_links = r.web_links, !.issue_id = r.issue_id,
                     !.series_id = r.series_id, !.manga = r.manga,
                     !.pages = <<PageEntry("p1.jpg", 0, "")>>] :
        r \in [genres : SUBSET {"adventure", "Action"},
               credits : BoundedSeqs({[person |-> <<"A", " ", "B">>, role |-> "Writer",
                                        language |-> ""],
                                      [person |-> <<"A">>, role |-> "Foo",
                                        language |-> "en"]}, MaxCredits),
               web_links : {<<>>, <<"http://u1">>},
               issue_id : {None, "i1"},
               series_id : {None, "s1"},
               manga : {None, "Yes"}]}

RefPool ==
    {[type |-> "IssueID", text |-> "i1", dbname |-> "Unknown"],
     [type |-> "SeriesID", text |-> "s1", dbname |-> "Unknown"],
     [type |-> "series_id", text |-> "s2", dbname |-> "Unknown"],
     [type |-> "URL", text |-> "http://u0", dbname |-> "Unknown"]}

TwiceBases ==
    {EmptyBytes} \cup
    {DocBytes([BlankTree EXCEPT
                  !.ns = "http://www.acbf.info/xml/acbf/1.1",
                  !.genre = g,
                  !.author = <<[activity |-> "Writer", lang |-> None, first |-> <<>>,
                                middle |-> <<>>, last |-> <<>>, nick |-> <<"Z">>]>>,
                  !.databaseref = refs]) :
        g \in {<<>>, <<[text |-> "adventure", match |-> 5]>>},
        refs \in BoundedSeqs(RefPool, MaxRefs)}

InitTwice == ConvInit(TwiceRecords, TwiceBases)
SpecTwice == InitTwice /\ [][NextConv]_vars

\* C2: writing the same record a second time onto the result of the first
\* write leaves the numbers of genre, author and databaseref elements of
\* book-info as they were after the first write.
C2_WriteTwiceCounts ==
    pc = "written2"
        => /\ ~out2.raised
           /\ Len(out2.tree.genre) = Len(out1.tree.genre)
           /\ Len(out2.tree.author) = Len(out1.tree.author)
           /\ Len(out2.tree.databaseref) = Len(out1.tree.databaseref)

-----------------------------------------------------------------------------
(* The page merge: records of one to MaxPages pages with distinct          *)
(* filenames and any display indexes, written onto no document or onto a   *)
(* document with at most one coverpage and a body of pages and other       *)
(* elements.                                                               *)

PagesRecords ==
    {[BlankMd EXCEPT !.series = "S", !.pages = p] : p \in PageLists(MaxPages) \ {<<>>}}

PagesBases ==
    {EmptyBytes} \cup
    {DocBytes([BlankTree EXCEPT !.coverpage = c, !.body = b]) :
        c \in {<<>>} \cup {<<e>> : e \in CoverPool},
        b \in BoundedSeqs(BodyPool, MaxBody)}

InitPages == ConvInit(PagesRecords, PagesBases)
SpecPages == InitPages /\ [][NextConv]_vars

HrefCount(t, f) ==
    Cardinality({i \in 1..Len(t.coverpage) : t.coverpage[i].image /\ t.coverpage[i].href = f})
        + Cardinality({i \in 1..Len(t.body) : t.body[i].image /\ t.body[i].href = f})

DisplayIndexOf(pages, f) ==
    pages[CHOOSE i \in 1..Len(pages) : pages[i].filename = f].display_index

\* C7: after write the tree has exactly one coverpage; its image href is
\* the filename of a record page of lowest display_index, which occurs
\* nowhere else; the body holds exactly the other record pages, once each,
\* as page elements in ascending display_index order; and reading the tree
\* back gives that filename at index 0.
C7_CoverReconciliation ==
    (pc \in {"written", "read"} /\ ~out1.raised)
        => LET t == out1.tree
               files == Range(Filenames(md.pages))
           IN /\ Len(t.coverpage) = 1
              /\ t.coverpage[1].tag = "coverpage" /\ t.coverpage[1].image
              /\ t.coverpage[1].href \in files
              /\ \A i \in 1..Len(md.pages) :
                    DisplayIndexOf(md.pages, t.coverpage[1].href) <= md.pages[i].display_index
              /\ \A f \in files : HrefCount(t, f) = 1
              /\ Len(t.body) = Len(md.pages) - 1
              /\ \A i \in 1..Len(t.body) :
                    /\ t.body[i].tag = "page" /\ t.body[i].image
                    /\ t.body[i].href \in files \ {t.coverpage[1].href}
              /\ \A i, j \in 1..Len(t.body) :
                    i < j => DisplayIndexOf(md.pages, t.body[i].href)
                                <= DisplayIndexOf(md.pages, t.body[j].href)
              /\ (pc = "read" =>
                    /\ rd.raised = "no"
                    /\ Len(rd.md.pages) = Len(md.pages)
                    /\ rd.md.pages[1].filename = t.coverpage[1].href
                    /\ rd.md.pages[1].display_index = 0)

\* the record's cover was a body page of the base tree and the base tree's
\* cover is now a body page: both elements changed places
C7_Witness ==
    /\ pc = "read"
    /\ Len(md.pages) = 3
    /\ base.kind = "doc"
    /\ base.tree.coverpage /= <<>>
    /\ base.tree.coverpage[1].image
    /\ base.tree.coverpage[1].href /= out1.tree.coverpage[1].href
    /\ out1.tree.coverpage[1].frames = 1
    /\ \E i \in 1..Len(out1.tree.body) :
          out1.tree.body[i].href = base.tree.coverpage[1].href /\ out1.tree.body[i].frames = 1

-----------------------------------------------------------------------------
(* Sequential adapter calls on one adapter instance over two archives.     *)

NameA  == [stem |-> "a", ext |-> "acbf"]
NameB  == [stem |-> "b", ext |-> "acbf"]
Page1  == [stem |-> "p1", ext |-> "jpg"]

\* a document as an archive may hold it: a series, a title, a cover
StoredTree(ns, local) ==
    [BlankTree EXCEPT
        !.ns = ns, !.local = local,
        !.sequence = <<[title |-> "Old", text |-> "7", volume |-> 0]>>,
        !.bookTitle = <<[lang |-> None, text |-> "Old title"]>>,
        !.coverpage = <<BasePage("coverpage", TRUE, "p1.jpg")>>]

UnknownNs == "http://www.acbf.info/xml/acbf/2.0"

EntryBytes ==
    {DocBytes(StoredTree(ns, ACBF)) :
        ns \in {None, "http://www.acbf.info/xml/acbf/1.1", UnknownNs}}
        \cup {DocBytes(StoredTree(None, <<"X">> \o ACBF)),
              DocBytes(StoredTree(None, <<"C", "o", "m", "i", "c">>)),
              GarbageBytes, EmptyBytes}

PageBytes == GarbageBytes

ArchivesA ==
    {[supports |-> s, entries |-> <<[name |-> Page1, bytes |-> PageBytes]>> \o e] :
        s \in BOOLEAN,
        e \in {<<>>} \cup {<<[name |-> NameA, bytes |-> b]>> : b \in EntryBytes}}

ArchivesB ==
    {[supports |-> TRUE, entries |-> e] :
        e \in {<<>>, <<[name |-> NameB, bytes |-> GarbageBytes]>>,
               <<[name |-> NameB, bytes |-> DocBytes(StoredTree(None, ACBF))]>>}}
        \cup {[supports |-> FALSE, entries |-> <<>>]}

\* the record the write calls hand over
WriteMd ==
    [BlankMd EXCEPT !.series = "S", !.issue = "1", !.title = "T",
                    !.pages = <<PageEntry("p1.jpg", 0, "")>>]

InitAdapter ==
    /\ pc = "adapter"
    /\ md = WriteMd
    /\ base = EmptyBytes
    /\ out1 = NoWrite
    /\ out2 = NoWrite
    /\ rd = NoRead
    /\ file = <<>>
    /\ \E a \in ArchivesA, b \in ArchivesB : arch = [x \in {"A", "B"} |-> IF x = "A" THEN a ELSE b]
    /\ lastCall = NoCall
    /\ calls = <<>>
    /\ oneInstance = TRUE

Apply(op, file0, a, metadata) ==
    CASE op = "has_tags"      -> has_tags(file0, a)
      [] op = "remove_tags"   -> remove_tags(file0, a)
      [] op = "read_tags"     -> read_tags(file0, a)
      [] op = "read_raw_tags" -> read_raw_tags(file0, a)
      [] op = "write_tags"    -> write_tags(file0, a, metadata)

\* one call on archive x; what the call changed before raising stays changed
Call(op, x) ==
    /\ pc = "adapter"
    /\ lastCall.n < MaxCalls
    /\ LET o == Apply(op, file, arch[x], md)
       IN /\ file' = o.file
          /\ arch' = [arch EXCEPT ![x] = o.arch]
          /\ lastCall' = [n |-> lastCall.n + 1, op |-> op, on |-> x, file0 |-> file,
                          before |-> arch[x], md |-> md, out |-> o]
    /\ UNCHANGED <<pc, md, base, out1, out2, rd, calls, oneInstance>>

DoHasTags     == \E x \in {"A", "B"} : Call("has_tags", x)
DoRemoveTags  == \E x \in {"A", "B"} : Call("remove_tags", x)
DoReadTags    == \E x \in {"A", "B"} : Call("read_tags", x)
DoReadRawTags == \E x \in {"A", "B"} : Call("read_raw_tags", x)
DoWriteTags   == \E x \in {"A", "B"} : Call("write_tags", x)

NextAdapter == DoHasTags \/ DoRemoveTags \/ DoReadTags \/ DoReadRawTags \/ DoWriteTags

SpecAdapter == InitAdapter /\ [][NextAdapter]_vars

-----------------------------------------------------------------------------
(* Claims about the adapter calls *)

\* the first entry of the archive whose name ends in '.acbf'
Located(a) == FindAcbf(get_filename_list(a), <<>>)

LocatedBytes(a) == read_file(a, Located(a)[1]).bytes

\* the bytes parse
Parses(b) == b.kind = "doc"

\* a valid document: it parses, its root's unqualified tag is 'ACBF' and
\* the root has no namespace or one of the two supported ones
ValidDocument(b) ==
    /\ Parses(b)
    /\ b.tree.local = ACBF
    /\ b.tree.ns \in {None, "http://www.acbf.info/xml/acbf/1.1",
                      "http://www.acbf.info/xml/acbf/1.2"}

\* root ACBF in a namespace that is not supported
UnsupportedVersion(b) ==
    /\ Parses(b)
    /\ b.tree.local = ACBF
    /\ ~ValidDocument(b)

Wrote(log, f) == \E i \in 1..Len(log) : log[i].op = "write" /\ log[i].name = f

\* C3: has_tags returns true only if the located entry holds a valid
\* document.
C3_ExistsOnlyIfValid ==
    (lastCall.op = "has_tags" /\ ~lastCall.out.raised /\ lastCall.out.ret)
        => /\ Located(lastCall.before) /= <<>>
           /\ ValidDocument(LocatedBytes(lastCall.before))

\* C4: read_tags on an archive whose located entry fails to parse or fails
\* validation returns an empty record and does not raise.
C4_ReadNeverFails ==
    (/\ lastCall.op = "read_tags"
     /\ Located(lastCall.before) /= <<>>
     /\ ~ValidDocument(LocatedBytes(lastCall.before)))
        => /\ ~lastCall.out.raised
           /\ lastCall.out.md = EmptyMd

\* C5: write_tags on an archive whose located entry has root ACBF in an
\* unsupported namespace ends in an error and leaves the archive as it was.
C5_NoMergeIntoUnsupportedVersion ==
    (/\ lastCall.op = "write_tags"
     /\ Located(lastCall.before) /= <<>>
     /\ UnsupportedVersion(LocatedBytes(lastCall.before)))
        => /\ (lastCall.out.raised \/ ~lastCall.out.ret)
           /\ lastCall.out.arch = lastCall.before

\* C6: write_tags on an archive whose located entry does not parse surfaces
\* an error and performs no archive write on that entry name.
C6_NoOverwriteOfMalformed ==
    (/\ lastCall.op = "write_tags"
     /\ Located(lastCall.before) /= <<>>
     /\ ~Parses(LocatedBytes(lastCall.before)))
        => /\ (lastCall.out.raised \/ ~lastCall.out.ret)
           /\ ~Wrote(lastCall.out.log, Located(lastCall.before))

\* what a caller and the archive see of a call
Visible(o) ==
    [raised |-> o.raised, ret |-> o.ret, md |-> o.md, text |-> o.text,
     arch |-> o.arch, log |-> o.log]

\* C9: the outcome of every call (what it returns or raises, the archive
\* operations it performs and the archive it leaves) is the outcome of the
\* same call made on a fresh adapter instance on the same archive content:
\* the entry name cached by earlier calls has no influence.
C9_CachedNameHasNoInfluence ==
    lastCall.op /= "none"
        => Visible(lastCall.out)
              = Visible(Apply(lastCall.op, <<>>, lastCall.before, lastCall.md))

\* a write on an archive with no '.acbf' entry, made while the instance
\* still caches the name found in the other archive, goes to the default
\* entry name
C9_Witness ==
    /\ lastCall.op = "write_tags"
    /\ lastCall.file0 /= <<>>
    /\ lastCall.file0 /= <<DefaultName>>
    /\ lastCall.before.supports
    /\ Located(lastCall.before) = <<>>
    /\ Wrote(lastCall.out.log, <<DefaultName>>)

\* C10: write_tags on an archive that does not support named files returns
\* false, does not raise, performs no archive operation and leaves the
\* archive as it was.
C10_UnsupportedArchive ==
    (lastCall.op = "write_tags" /\ ~lastCall.before.supports)
        => /\ ~lastCall.out.raised
           /\ ~lastCall.out.ret
           /\ lastCall.out.log = <<>>
           /\ lastCall.out.arch = lastCall.before
           /\ arch[lastCall.on] = lastCall.before

\* such a write on an archive that holds a valid '.acbf' entry
C10_Witness ==
    /\ lastCall.op = "write_tags"
    /\ ~lastCall.before.supports
    /\ Located(lastCall.before) /= <<>>
    /\ ValidDocument(LocatedBytes(lastCall.before))
    /\ ~lastCall.out.ret

-----------------------------------------------------------------------------
(* Two interleaved calls: call 1 on archive A, call 2 on archive B, on one *)
(* adapter instance or on one instance each.  A step is one load or store  *)
(* of self.file together with the archive operation that uses the loaded   *)
(* value.  calls[c].own is the name call c found in its own archive;       *)
(* calls[c].used lists the names call c loaded from self.file and what it  *)
(* used each for.                                                          *)

Other(c) == 3 - c
ArchiveOf(c) == IF c = 1 THEN "A" ELSE "B"

\* every call taken to run on the first instance
SameCell(c) == 1

\* the adapter instance whose self.file call c reads and writes
Cell(c) == IF oneInstance THEN 1 ELSE c

RaceOps == {"has_tags", "remove_tags", "read_tags", "write_tags"}

InitRace ==
    /\ pc = "race"
    /\ md = WriteMd
    /\ base = EmptyBytes
    /\ out1 = NoWrite
    /\ out2 = NoWrite
    /\ rd = NoRead
    /\ lastCall = NoCall
    /\ oneInstance \in BOOLEAN
    /\ file = [i \in {1, 2} |-> <<>>]
    /\ \E b \in {e \in ArchivesB : e.supports} :
          arch = [x \in {"A", "B"} |->
                     IF x = "A"
                     THEN [supports |-> TRUE,
                           entries |-> <<[name |-> Page1, bytes |-> PageBytes],
                                         [name |-> NameA,
                                          bytes |-> DocBytes(StoredTree(None, ACBF))]>>]
                     ELSE b]
    /\ calls \in [{1, 2} -> {[op |-> o, pc |-> "begin", own |-> <<>>, has |-> FALSE,
                              xml |-> EmptyBytes, used |-> <<>>] : o \in RaceOps}]

At(c, where) == pc = "race" /\ calls[c].pc = where

Goto(c, where) == calls' = [calls EXCEPT ![c].pc = where]

Use(c, what, f) == Append(calls[c].used, [op |-> what, name |-> f])

RaceFrame == UNCHANGED <<pc, md, base, out1, out2, rd, lastCall, oneInstance>>

\* write_tags: if self.supports_tags(archive); the other calls enter has_tags
Begin(c) ==
    /\ At(c, "begin")
    /\ IF calls[c].op = "write_tags" /\ ~supports_tags(arch[ArchiveOf(c)])
       THEN Goto(c, "done")
       ELSE Goto(c, "reset")
    /\ UNCHANGED <<file, arch>> /\ RaceFrame

\* has_tags: self.file = None
Reset(c) ==
    /\ At(c, "reset")
    /\ file' = [file EXCEPT ![Cell(c)] = ResetFile(@)]
    /\ Goto(c, "scan")
    /\ UNCHANGED arch /\ RaceFrame

\* has_tags: the loop over archive.get_filename_list()
Scan(c) ==
    /\ At(c, "scan")
    /\ LET found == FindAcbf(get_filename_list(arch[ArchiveOf(c)]), <<>>)
       IN /\ file' = IF found = <<>> THEN file ELSE [file EXCEPT ![Cell(c)] = found]
          /\ calls' = [calls EXCEPT ![c].pc = "test", ![c].own = found]
    /\ UNCHANGED arch /\ RaceFrame

\* has_tags: self.file is not None and self.supports_tags(archive)
Test(c) ==
    /\ At(c, "test")
    /\ LET f == file[Cell(c)]
       IN calls' = [calls EXCEPT
                       ![c].used = Use(c, "test", f),
                       ![c].pc = IF f /= <<>> /\ supports_tags(arch[ArchiveOf(c)])
                                 THEN "validate" ELSE "after"]
    /\ UNCHANGED <<file, arch>> /\ RaceFrame

\* has_tags: self._validate_bytes(archive.read_file(self.file))
Validate(c) ==
    /\ At(c, "validate")
    /\ LET f == file[Cell(c)]
           r == IF f = <<>> THEN [raised |-> TRUE, bytes |-> EmptyBytes]
                ELSE read_file(arch[ArchiveOf(c)], f[1])
       IN calls' = [calls EXCEPT
                       ![c].used = Use(c, "read", f),
                       ![c].has = ~r.raised /\ ValidateBytes(r.bytes),
                       ![c].pc = IF r.raised THEN "raised" ELSE "after"]
    /\ UNCHANGED <<file, arch>> /\ RaceFrame

\* the caller of has_tags goes on with its result
After(c) ==
    /\ At(c, "after")
    /\ Goto(c, CASE calls[c].op = "has_tags" -> "done"
                 [] calls[c].op = "remove_tags" -> IF calls[c].has THEN "remove" ELSE "done"
                 [] calls[c].op = "read_tags" -> IF calls[c].has THEN "read" ELSE "done"
                 [] calls[c].op = "write_tags" -> IF calls[c].has THEN "xml" ELSE "default")
    /\ UNCHANGED <<file, arch>> /\ RaceFrame

\* remove_tags: archive.remove_file(self.file)
Remove(c) ==
    /\ At(c, "remove")
    /\ LET f == file[Cell(c)]
       IN /\ calls' = [calls EXCEPT ![c].used = Use(c, "remove", f),
                                    ![c].pc = IF f = <<>> THEN "raised" ELSE "done"]
          /\ arch' = IF f = <<>> THEN arch
                     ELSE [arch EXCEPT ![ArchiveOf(c)] = remove_file(@, f[1])]
    /\ UNCHANGED file /\ RaceFrame

\* read_tags: archive.read_file(self.file)
Read(c) ==
    /\ At(c, "read")
    /\ LET f == file[Cell(c)]
           r == IF f = <<>> THEN [raised |-> TRUE, bytes |-> EmptyBytes]
                ELSE read_file(arch[ArchiveOf(c)], f[1])
       IN calls' = [calls EXCEPT ![c].used = Use(c, "read", f),
                                 ![c].pc = IF r.raised THEN "raised" ELSE "done"]
    /\ UNCHANGED <<file, arch>> /\ RaceFrame

\* write_tags: xml = archive.read_file(self.file)
ReadXml(c) ==
    /\ At(c, "xml")
    /\ LET f == file[Cell(c)]
           r == IF f = <<>> THEN [raised |-> TRUE, bytes |-> EmptyBytes]
                ELSE read_file(arch[ArchiveOf(c)], f[1])
       IN calls' = [calls EXCEPT ![c].used = Use(c, "read", f),
                                 ![c].xml = r.bytes,
                                 ![c].pc = IF r.raised THEN "raised" ELSE "default"]
    /\ UNCHANGED <<file, arch>> /\ RaceFrame

\* write_tags: if self.file is None
TestDefault(c) ==
    /\ At(c, "default")
    /\ Goto(c, IF file[Cell(c)] = <<>> THEN "setdefault" ELSE "write")
    /\ UNCHANGED <<file, arch>> /\ RaceFrame

\* write_tags: self.file = 'comic_metadata.acbf'
SetDefault(c) ==
    /\ At(c, "setdefault")
    /\ file' = [file EXCEPT ![Cell(c)] = <<DefaultName>>]
    /\ Goto(c, "write")
    /\ UNCHANGED arch /\ RaceFrame

\* write_tags: archive.write_file(self.file, self._bytes_from_metadata(metadata, xml))
Write(c) ==
    /\ At(c, "write")
    /\ LET f == file[Cell(c)]
           b == BytesFromMetadata(md, calls[c].xml)
       IN /\ calls' = [calls EXCEPT ![c].used = Use(c, "write", f),
                                    ![c].pc = IF f = <<>> \/ b.raised THEN "raised" ELSE "done"]
          /\ arch' = IF f = <<>> \/ b.raised THEN arch
                     ELSE [arch EXCEPT ![ArchiveOf(c)] = write_file(@, f[1], b.bytes)]
    /\ UNCHANGED file /\ RaceFrame

NextRace ==
    \E c \in {1, 2} :
        \/ Begin(c) \/ Reset(c) \/ Scan(c) \/ Test(c) \/ Validate(c) \/ After(c)
        \/ Remove(c) \/ Read(c) \/ ReadXml(c) \/ TestDefault(c) \/ SetDefault(c) \/ Write(c)

SpecRace == InitRace /\ [][NextRace]_vars

\* the name call c has in self.file when it runs alone: the one it found,
\* or the default name once write_tags has set it
Expected(c, e) ==
    IF e.op = "write" /\ calls[c].own = <<>> THEN <<DefaultName>> ELSE calls[c].own

\* C8: with one adapter instance per call, every name a call loads from
\* self.file and tests, reads, writes or removes is the name it found in
\* its own archive (the default name for a write when it found none).  With
\* both calls on one instance a call reads, writes or removes in its own
\* archive the name the other call found in the other archive: C8_Race.
C8_InstancePerCallIsSafe ==
    (pc = "race" /\ ~oneInstance)
        => \A c \in {1, 2} : \A i \in 1..Len(calls[c].used) :
              calls[c].used[i].name = Expected(c, calls[c].used[i])

\* on one shared instance: a call reads, writes or removes the other
\* call's entry name in its own archive
C8_Race ==
    /\ pc = "race"
    /\ oneInstance
    /\ \E c \in {1, 2} : \E i \in 1..Len(calls[c].used) :
          LET e == calls[c].used[i]
          IN /\ e.op \in {"read", "write", "remove"}
             /\ e.name /= <<>>
             /\ e.name = calls[Other(c)].own
             /\ e.name /= calls[c].own

-----------------------------------------------------------------------------
(* The publish date: records varying in year, month and day, written onto  *)
(* no document or onto one that holds a publish-date already.              *)

Years == {0, 1, 5, 49, 50, 51, 99, 100, 101, 999, 2012, 12345}

DateRecords ==
    {[BlankMd EXCEPT !.series = "S", !.year = r.year, !.month = r.month, !.day = r.day,
                     !.pages = <<PageEntry("p1.jpg", 0, "")>>] :
        r \in [year : Years, month : {0, 5, 12}, day : {0, 9, 31}]}

Chars_1999 == <<"1", "9", "9", "9", "-", "0", "2", "-", "0", "3">>

DateBases ==
    {EmptyBytes, DocBytes(BlankTree)} \cup
    {DocBytes([BlankTree EXCEPT !.publishDate =
                  <<[value |-> v, text |-> <<"o", "l", "d">>, children |-> c]>>]) :
        v \in {<<>>, Chars_1999}, c \in {0, 1}}

InitDate == ConvInit(DateRecords, DateBases)
SpecDate == InitDate /\ [][NextConv]_vars

\* a run of digits of at least w characters, with zeros in front only to
\* reach w characters, whose number is n
IsPadded(digits, w, n) ==
    /\ Len(digits) >= w
    /\ \A i \in 1..Len(digits) : IsDigit(digits[i])
    /\ (Len(digits) > w => digits[1] /= "0")
    /\ IntOf(digits) = n

\* C13: for every record year y > 0, after write the publish-date element
\* has a text equal to its 'value' attribute, of the form year-month-day
\* where the year is y + 2000 when y < 50, y + 1900 when 50 <= y < 100 and y
\* otherwise, padded with zeros to four digits, and the month and the day
\* are those of the record, 1 when the record has none, padded to two.
C13_TwoDigitYear ==
    (pc \in {"written", "read"} /\ ~out1.raised /\ md.year > 0)
        => /\ Len(out1.tree.publishDate) = 1
           /\ LET e == out1.tree.publishDate[1]
                  y == md.year
                  expected == IF y < 50 THEN y + 2000 ELSE IF y < 100 THEN y + 1900 ELSE y
              IN /\ e.text = e.value
                 /\ \E a, b \in 1..Len(e.text) :
                       /\ a < b /\ e.text[a] = "-" /\ e.text[b] = "-"
                       /\ IsPadded(SubSeq(e.text, 1, a - 1), 4, expected)
                       /\ IsPadded(SubSeq(e.text, a + 1, b - 1), 2,
                                   IF md.month = 0 THEN 1 ELSE md.month)
                       /\ IsPadded(SubSeq(e.text, b + 1, Len(e.text)), 2,
                                   IF md.day = 0 THEN 1 ELSE md.day)

\* year 49 with no month and no day written over an older publish-date:
\* 2049-01-01 in the text and in the attribute
C13_Witness ==
    /\ pc = "written"
    /\ md.year = 49 /\ md.month = 0 /\ md.day = 0
    /\ base.kind = "doc" /\ base.tree.publishDate /= <<>>
    /\ base.tree.publishDate[1].value = Chars_1999
    /\ out1.tree.publishDate[1].text
           = <<"2", "0", "4", "9", "-", "0", "1", "-", "0", "1">>
    /\ out1.tree.publishDate[1].value = out1.tree.publishDate[1].text

-----------------------------------------------------------------------------
(* Reading a stored document: documents varying in their book-title        *)
(* elements, their sequence and their publish-date.                        *)

MaxTitles == 2      \* book-title elements of a drawn document

TitlePool ==
    {[lang |-> None, text |-> "U"], [lang |-> "en", text |-> "E"],
     [lang |-> "fr", text |-> "F"]}

Chars_2012_or_so == <<"2", "0", "1", "2", " ", "o", "r", " ", "s", "o">>

PublishDatePool ==
    [value : {<<>>, <<"x">>, Chars_1999},
     text : {<<>>, Chars_2012_or_so, <<"c", "2", "0", "1", "2">>, <<"2", "0", "1">>},
     children : {0, 1}]

ReadBases ==
    {DocBytes([BlankTree EXCEPT !.sequence = q, !.bookTitle = ts, !.publishDate = d]) :
        q \in {<<>>, <<[title |-> "S", text |-> "1", volume |-> 0]>>},
        ts \in BoundedSeqs(TitlePool, MaxTitles),
        d \in {<<>>} \cup {<<e>> : e \in PublishDatePool}}

InitRead ==
    /\ pc = "start"
    /\ md = EmptyMd
    /\ base \in ReadBases
    /\ out1 = NoWrite
    /\ out2 = NoWrite
    /\ rd = NoRead
    /\ ConvIdle

\* _metadata_from_bytes on the stored document
ReadBase ==
    /\ pc = "start"
    /\ rd' = MetadataFromBytes(base, <<>>)
    /\ pc' = "readbase"
    /\ UNCHANGED <<md, base, out1, out2, file, arch, lastCall, calls, oneInstance>>

SpecRead == InitRead /\ [][ReadBase]_vars

\* the first element of tags whose lang is in langs, <<>> when there is none
FirstWithLang(tags, langs) ==
    LET hits == {i \in 1..Len(tags) : tags[i].lang \in langs}
    IN IF hits = {} THEN <<>> ELSE <<tags[CHOOSE i \in hits : \A j \in hits : i <= j]>>

\* the title (the series, when the document has no sequence) of the record
\* read from the stored document
TitleRead == IF base.tree.sequence = <<>> THEN rd.md.series ELSE rd.md.title

\* C12: the title read from a document with at least one book-title is the
\* text of the first untagged book-title if there is one, else of the first
\* one tagged 'en' if there is one, else of the first one present, whatever
\* the order of the elements.
C12_LanguageFallback ==
    (pc = "readbase" /\ base.tree.bookTitle /= <<>>)
        => LET tags == base.tree.bookTitle
               untagged == FirstWithLang(tags, {None})
               en == FirstWithLang(tags, {"en"})
           IN /\ rd.raised = "no"
              /\ TitleRead = (IF untagged /= <<>> THEN untagged[1].text
                              ELSE IF en /= <<>> THEN en[1].text
                              ELSE tags[1].text)

\* the first four characters of a text when they are digits
StartsWithFourDigits(text) == Len(text) >= 4 /\ \A i \in 1..4 : IsDigit(text[i])

\* C17: when the document has a publish-date whose 'value' attribute gives
\* no year and whose text begins with four digits, the year of the record
\* read is the number those four digits spell, also when the publish-date
\* has no child elements.
C17_DateFallback ==
    (/\ pc = "readbase"
     /\ base.tree.publishDate /= <<>>
     /\ base.tree.publishDate[1].value \in {<<>>, <<"x">>}
     /\ StartsWithFourDigits(base.tree.publishDate[1].text))
        => /\ rd.raised = "no"
           /\ rd.md.year = 2012

-----------------------------------------------------------------------------
(* The sequence merge: records varying in series, issue and volume written *)
(* onto documents that hold zero to MaxSeqs sequence elements.             *)

MaxSeqs == 3        \* sequence elements of a drawn document

SeqPool ==
    {[title |-> "S", text |-> "1", volume |-> 0],
     [title |-> "Alt", text |-> "2", volume |-> 1],
     [title |-> "Old", text |-> None, volume |-> 0]}

SequenceRecords ==
    {[BlankMd EXCEPT !.series = r.series, !.issue = r.issue, !.volume = r.volume,
                     !.pages = <<PageEntry("p1.jpg", 0, "")>>] :
        r \in [series : {None, "S"}, issue : {None, "1", "2"}, volume : {0, 3}]}

SequenceBases ==
    {DocBytes([BlankTree EXCEPT !.sequence = q]) : q \in BoundedSeqs(SeqPool, MaxSeqs)}

InitSequence == ConvInit(SequenceRecords, SequenceBases)
SpecSequence == InitSequence /\ [][NextConv]_vars

\* the sequence element of a record: its series as 'title', its issue as
\* text, its volume as 'volume'
FreshSequence(m) ==
    [title |-> m.series, text |-> IF Truthy(m.issue) THEN m.issue ELSE None,
     volume |-> m.volume]

\* C15: when the record has a series, after write onto a tree with exactly
\* one sequence the tree has exactly one sequence, the record's; after
\* write onto a tree with several, the tree holds those whose text is not
\* the record's issue, in their order, followed by the record's.
C15_SequenceMerge ==
    (pc = "written" /\ ~out1.raised /\ Truthy(md.series))
        => LET old == base.tree.sequence
               new == out1.tree.sequence
           IN /\ Len(old) = 1 => new = <<FreshSequence(md)>>
              /\ Len(old) > 1 =>
                    new = Append(SelectSeq(old, LAMBDA q : q.text /= md.issue),
                                 FreshSequence(md))

-----------------------------------------------------------------------------
(* The title merge: records varying in title, language and series written  *)
(* onto documents that hold a sequence and up to MaxTitles book-titles.    *)

TitleRecords ==
    {[BlankMd EXCEPT !.series = r.series, !.title = r.title, !.language = r.language,
                     !.pages = <<PageEntry("p1.jpg", 0, "")>>] :
        r \in [series : {None, "S"}, title : {None, "T"}, language : {None, "en", "fr"}]}

TitleBases ==
    {DocBytes([BlankTree EXCEPT !.sequence = <<[title |-> "S", text |-> "1", volume |-> 0]>>,
                                !.bookTitle = ts]) :
        ts \in BoundedSeqs(TitlePool, MaxTitles)}

InitTitle == ConvInit(TitleRecords, TitleBases)
SpecTitle == InitTitle /\ [][NextConv]_vars

\* C16: for a base tree with a sequence and a book-title that is untagged
\* or tagged 'en', and a record with a title, the title read from the tree
\* that write produced is the record's title, and a second write of the
\* same record leaves the number of book-title elements as it was after
\* the first.
C16_TitleMergeThenRead ==
    (/\ pc \in {"read", "written2"}
     /\ base.tree.sequence /= <<>>
     /\ FirstWithLang(base.tree.bookTitle, {None, "en"}) /= <<>>
     /\ Truthy(md.title))
        => /\ rd.raised = "no"
           /\ rd.md.title = md.title
           /\ (pc = "written2" =>
                  /\ ~out2.raised
                  /\ Len(out2.tree.bookTitle) = Len(out1.tree.bookTitle))

-----------------------------------------------------------------------------
(* The frame of the merge: records that populate any subset of series,     *)
(* title, genres, web links, issue id, year and pages, written onto a      *)
(* document that holds all of the corresponding elements.                  *)

FrameRecords ==
    {[BlankMd EXCEPT !.series = r.series, !.title = r.title, !.genres = r.genres,
                     !.web_links = r.web_links, !.issue_id = r.issue_id,
                     !.year = r.year, !.pages = r.pages] :
        r \in [series : {None, "S"}, title : {None, "T"},
               genres : {{}, {"adventure"}},
               web_links : {<<>>, <<"http://u1">>},
               issue_id : {None, "i1"},
               year : {0, 2012},
               pages : {<<>>, <<PageEntry("p1.jpg", 0, "")>>}]}

FrameTree(body) ==
    [BlankTree EXCEPT
        !.sequence = <<[title |-> "Old", text |-> "7", volume |-> 2]>>,
        !.bookTitle = <<[lang |-> None, text |-> "U"]>>,
        !.genre = <<[text |-> "adventure", match |-> 5], [text |-> "horror", match |-> 0]>>,
        !.databaseref = <<[type |-> "URL", text |-> "http://u0", dbname |-> "Unknown"]>>,
        !.publishDate = <<[value |-> Chars_1999, text |-> <<"o", "l", "d">>, children |-> 0]>>,
        !.coverpage = <<BasePage("coverpage", TRUE, "p1.jpg")>>,
        !.bgcolor = "#ffffff",
        !.body = body]

FrameBases ==
    {DocBytes(FrameTree(b)) :
        b \in {<<BasePage("page", TRUE, "p2.jpg")>>,
               <<BasePage("page", TRUE, "p2.jpg"), BasePage("page", TRUE, "p3.jpg")>>}}

InitFrame == ConvInit(FrameRecords, FrameBases)
SpecFrame == InitFrame /\ [][NextConv]_vars

\* C11: after write, the elements of every field the record does not
\* populate are those of the base tree: the sequences when it has no
\* series, the book-titles when it has no title, the genres when its genre
\* set is empty, the database references when it has no web link and no id,
\* the publish-date when it has no year, and the coverpage, the body's
\* children and the body's attributes when its page list is empty.
C11_MergeFramePolicy ==
    (pc = "written" /\ ~out1.raised)
        => LET old == base.tree
               new == out1.tree
           IN /\ ~Truthy(md.series) => new.sequence = old.sequence
              /\ ~Truthy(md.title) => new.bookTitle = old.bookTitle
              /\ md.genres = {} => new.genre = old.genre
              /\ (md.web_links = <<>> /\ ~Truthy(md.issue_id) /\ ~Truthy(md.series_id))
                    => new.databaseref = old.databaseref
              /\ md.year = 0 => new.publishDate = old.publishDate
              /\ md.pages = <<>> =>
                    /\ new.coverpage = old.coverpage
                    /\ new.body = old.body
                    /\ new.bgcolor = old.bgcolor

-----------------------------------------------------------------------------
(* The credits: records of up to MaxAuthors credits whose person strings   *)
(* have zero to four tokens, with single, double and trailing spaces,      *)
(* written onto no document or onto one that holds authors already.        *)

MaxAuthors == 2     \* credits of a drawn record

NamePool ==
    {<<>>, <<" ">>, <<"A">>, <<"A", " ", "B">>, <<" ", "A", " ", " ", "B", "c", " ">>,
     <<"A", " ", "B", " ", "C">>, <<"A", " ", "B", " ", "C", " ", "D">>}

RoledPool ==
    {[role |-> "Writer", language |-> ""], [role |-> "Artist", language |-> "en"],
     [role |-> "Cover", language |-> ""], [role |-> "Foo", language |-> "en"]}

CreditsRecords ==
    {[BlankMd EXCEPT !.series = "S", !.credits = c,
                     !.pages = <<PageEntry("p1.jpg", 0, "")>>] :
        c \in BoundedSeqs({[person |-> p, role |-> r.role, language |-> r.language] :
                              p \in NamePool, r \in RoledPool}, MaxAuthors)}

CreditsBases ==
    {EmptyBytes,
     DocBytes([BlankTree EXCEPT !.author =
         <<[activity |-> "Writer", lang |-> None, first |-> <<"O">>, middle |-> <<>>,
            last |-> <<"L">>, nick |-> <<>>],
           [activity |-> "Bar", lang |-> None, first |-> <<>>, middle |-> <<>>,
            last |-> <<>>, nick |-> <<"Z">>]>>])}

InitCredits == ConvInit(CreditsRecords, CreditsBases)
SpecCredits == InitCredits /\ [][NextConv]_vars

\* the schema's role labels
SchemaRoles ==
    {"Writer", "Adapter", "Artist", "Penciller", "Inker", "Colorist", "Letterer",
     "CoverArtist", "Photographer", "Editor", "Assistant Editor", "Translator", "Other"}

\* the role names that some label other than 'Other' stands for
KnownRoles ==
    writer_synonyms \cup penciller_synonyms \cup inker_synonyms \cup colorist_synonyms
        \cup letterer_synonyms \cup cover_synonyms \cup editor_synonyms
        \cup translator_synonyms
        \cup {"adapter", "artist", "photographer", "photo", "assistant editor"}

\* C14: after write the author elements are, in the order of the record's
\* credits, one per credit whose person has at least one token, and no
\* other: with its nickname only for one token, first-name and last-name
\* for two, first-name, middle-name and last-name from the first three
\* tokens for three or more; each with an activity among the schema's role
\* labels, 'Other' when the role is no known role name.
C14_CreditNames ==
    (pc = "written" /\ ~out1.raised)
        => LET made == SelectSeq(md.credits, LAMBDA c : Split(c.person) /= <<>>)
               author == out1.tree.author
           IN /\ Len(author) = Len(made)
              /\ \A k \in 1..Len(author) :
                    LET a == author[k]
                        tokens == Split(made[k].person)
                        n == Len(tokens)
                    IN /\ n = 1 => /\ a.nick = tokens[1]
                                   /\ a.first = <<>> /\ a.middle = <<>> /\ a.last = <<>>
                       /\ n = 2 => /\ a.first = tokens[1] /\ a.last = tokens[2]
                                   /\ a.middle = <<>> /\ a.nick = <<>>
                       /\ n >= 3 => /\ a.first = tokens[1] /\ a.middle = tokens[2]
                                    /\ a.last = tokens[3] /\ a.nick = <<>>
                       /\ a.activity \in SchemaRoles
                       /\ CaseFold(made[k].role) \notin KnownRoles => a.activity = "Other"

\* a four-token name and a blank name written over two existing authors:
\* one author, with the first three tokens, and neither of the old ones
C14_Witness ==
    /\ pc = "written"
    /\ base.kind = "doc" /\ Len(base.tree.author) = 2
    /\ Len(md.credits) = 2
    /\ md.credits[1].person = <<" ">>
    /\ md.credits[2].person = <<"A", " ", "B", " ", "C", " ", "D">>
    /\ md.credits[2].role = "Foo"
    /\ out1.tree.author =
          <<[activity |-> "Other", lang |-> "en", first |-> <<"A">>, middle |-> <<"B">>,
             last |-> <<"C">>, nick |-> <<>>]>>

-----------------------------------------------------------------------------
(* The whole model: every scenario *)

Init == InitRound \/ InitTwice \/ InitPages \/ InitAdapter \/ InitRace \/ InitDate \/ InitRead \/ InitSequence \/ InitTitle \/ InitFrame \/ InitCredits

Next == NextConv \/ NextAdapter \/ NextRace \/ ReadBase

Spec == Init /\ [][Next]_vars

====
